---- MODULE Spec2Model ----
(***************************************************************************)
(* Grammar analysis and predictive parsing of the CD-lab repository:       *)
(*   expt 6/6a.py   recursive memoised FIRST, iterative FOLLOW, LL(1)      *)
(*                  table construction and the stack-driven parser;        *)
(*   expt 4/main.py iterative fixed-point FIRST and FOLLOW solvers;        *)
(*   expt 4/first_n_follow.py  recursive memoised FIRST and FOLLOW with a  *)
(*                  set of the symbols being visited.                      *)
(* One behaviour runs one of the programs on one grammar, or applies the   *)
(* two sequence-FIRST functions to one sequence of symbols.                *)
(***************************************************************************)
EXTENDS Naturals, Sequences, FiniteSets, TLC

VARIABLES
    prog,           \* which program runs: "6a", "main4" or "fnf"; "seq" when
                    \* the sequence-FIRST functions are applied
    grammar,        \* the loaded grammar: sequence of [head, prods] in dict order
    stage,          \* position of the running program
    first_sets,     \* symbol -> set of symbols (6a: global memo; main4: local
                    \* dict; fnf: main's dict "first")
    first_memo,     \* fnf: the memo shared by the calls of cal_first
    follow_memo,    \* fnf: the memo shared by the calls of cal_follow
    todo,           \* 6a main: nonterminals the FIRST loop has not visited yet
    depth,          \* deepest nesting of compute_first calls reached so far
    follow_sets,    \* nonterminal -> set of symbols
    parsing_table,  \* nonterminal -> (terminal -> production or None)
    report,         \* conflicts printed by construct_parsing_table
    tokens,         \* parser: the token list
    stack,          \* parser: the stack, top is the last element
    input_pointer,  \* parser: 0-based cursor into tokens
    action,         \* parser: the action of the last loop iteration
    applied,        \* parser: the productions applied so far, in order
    outcome,        \* how the run ended, "" while it has not
    sequence_in,    \* the argument of the sequence-FIRST functions
    sequence_first  \* source file -> the set its sequence-FIRST returned

vars == <<prog, grammar, stage, first_sets, first_memo, follow_memo, todo,
          depth, follow_sets,
          parsing_table, report, tokens, stack, input_pointer, action,
          applied, outcome, sequence_in, sequence_first>>
seq_vars == <<sequence_in, sequence_first>>

----------------------------------------------------------------------------
(* Bounds of the model *)

\* longest input string (in tokens, without the appended end marker)
MaxInputLen == 2
\* stand-in for the interpreter's recursion limit (sys.getrecursionlimit())
MaxDepth == 4
\* the apply actions of a parse are recorded up to this many
MaxTrace == 12
\* longest sequence given to the sequence-FIRST functions
MaxSeqLen == 2

----------------------------------------------------------------------------
(* Symbols *)

EPSILON == "#"
END_MARKER == "$"
\* main.py spells epsilon differently and normalises the aliases on loading
EPSILON4 == "ε"
EPSILON_TOKENS == {EPSILON4, "#", "epsilon", "EPSILON", "lambda", "Λ"}

normalize_symbol(symbol) == IF symbol \in EPSILON_TOKENS THEN EPSILON4 ELSE symbol

\* 'A' <= symbol[0] <= 'Z' over the symbols the model uses
UpperCase == {"E", "E'", "T", "T'", "F", "S", "A", "B"}
IsUpper(symbol) == symbol \in UpperCase

None == <<>>

Max(a, b) == IF a >= b THEN a ELSE b
SetToSeqs(S, n) == UNION {[1..k -> S] : k \in 0..n}

----------------------------------------------------------------------------
(* Grammars the programs are run on *)

Rule(h, ps) == [head |-> h, prods |-> ps]

\* E -> T E' ; E' -> + T E' | # ; T -> F T' ; T' -> * F T' | # ; F -> ( E ) | id
ExprGrammar ==
    << Rule("E",  << <<"T", "E'">> >>),
       Rule("E'", << <<"+", "T", "E'">>, <<"#">> >>),
       Rule("T",  << <<"F", "T'">> >>),
       Rule("T'", << <<"*", "F", "T'">>, <<"#">> >>),
       Rule("F",  << <<"(", "E", ")">>, <<"id">> >>) >>

\* A -> a | a b
ConflictGrammar == << Rule("A", << <<"a">>, <<"a", "b">> >>) >>

\* A -> B ; B -> A
CycleGrammar == << Rule("A", << <<"B">> >>), Rule("B", << <<"A">> >>) >>

\* S -> A a ; A -> B ; B -> a | #
DoubleInsertGrammar ==
    << Rule("S", << <<"A", "a">> >>),
       Rule("A", << <<"B">> >>),
       Rule("B", << <<"a">>, <<"#">> >>) >>

\* A -> a | a b | b | b a
MultiConflictGrammar ==
    << Rule("A", << <<"a">>, <<"a", "b">>, <<"b">>, <<"b", "a">> >>) >>

\* S -> A # a ; A -> b
EpsilonInsideGrammar ==
    << Rule("S", << <<"A", "#", "a">> >>), Rule("A", << <<"b">> >>) >>

\* S -> a A | b ; A -> a S | S a
MutualFollowGrammar ==
    << Rule("S", << <<"a", "A">>, <<"b">> >>),
       Rule("A", << <<"a", "S">>, <<"S", "a">> >>) >>

NamedGrammars ==
    {ExprGrammar, ConflictGrammar, CycleGrammar, DoubleInsertGrammar,
     MultiConflictGrammar, EpsilonInsideGrammar, MutualFollowGrammar}

\* a family of two-nonterminal grammars: S has one or two alternatives,
\* A has none (it is then an undefined nonterminal), one or two
SBodies == { <<"a">>, <<"A">>, <<"A", "b">>, <<"a", "S">>, <<"S", "a">>,
             <<"A", "S">>, <<"#">> }
ABodies == { <<"#">>, <<"a">>, <<"b">>, <<"S">>, <<"A", "a">>, <<"b", "A">>,
             <<"#", "a">> }
Alternatives(B) == {<<p>> : p \in B} \cup {<<p, q>> : p \in B, q \in B}
SmallGrammars ==
    {<<Rule("S", ps)>> : ps \in Alternatives(SBodies)}
    \cup {<<Rule("S", ps), Rule("A", qs)>> :
             ps \in Alternatives(SBodies), qs \in Alternatives(ABodies)}

Grammars == NamedGrammars \cup SmallGrammars

----------------------------------------------------------------------------
(* expt 6/6a.py: the loader's classification of symbols *)

Heads(g) == {g[i].head : i \in 1..Len(g)}
ProdsOf(g, nt) ==
    IF nt \in Heads(g)
    THEN (CHOOSE r \in {g[i] : i \in 1..Len(g)} : r.head = nt).prods
    ELSE <<>>
RhsSymbols(g) ==
    UNION {UNION {{g[i].prods[k][j] : j \in 1..Len(g[i].prods[k])} :
                     k \in 1..Len(g[i].prods)} : i \in 1..Len(g)}

Terminals(g) == {s \in RhsSymbols(g) : s # EPSILON /\ ~IsUpper(s)}
NonTerminals(g) ==
    Heads(g) \cup {s \in RhsSymbols(g) : IsUpper(s) /\ s \notin Terminals(g)
                                           /\ s # EPSILON}
StartSymbol(g) == g[1].head

terminals == Terminals(grammar)
non_terminals == NonTerminals(grammar)
start_symbol == StartSymbol(grammar)

----------------------------------------------------------------------------
(* expt 6/6a.py: FIRST, recursive and memoised in the global first_sets *)

\* The operators of this module bind the result of a call before they use
\* it, as the programs do:  CHOOSE r \in {e(v) : v \in {call}} : TRUE  is
\* e(call), the call being made once.

\* the result of a call: the memo after it, the set returned, whether the
\* call returned at all, and the deepest nesting it reached
Ret(fs, val, ok, d) == [fs |-> fs, val |-> val, ok |-> ok, depth |-> d]

\* a call nested deeper than the recursion limit raises RecursionError
TooDeep(d) == d > MaxDepth

\* the locals of a call compute_first(symbol) at nesting depth d that has
\* reached its loops: the production i and its symbol j the loops are at, the
\* memo, the set "first", the deepest nesting reached, and whether a nested
\* call has raised
Frame(symbol, d, fs) ==
    [symbol |-> symbol, d |-> d, i |-> 1, j |-> 1, fs |-> fs, first |-> {},
     depth |-> d, ok |-> TRUE]

\* lines 30-31 and 38-39: epsilon is added for the epsilon production and
\* for a production whose symbols were all nullable (the for-else)
AddEpsilon(fr) ==
    [fr EXCEPT !.first = @ \cup {EPSILON}, !.i = @ + 1, !.j = 1]

\* lines 35-37: sym_first is in hand as the result c of the nested call; it
\* is added without epsilon, then the loop breaks or goes on to the next
\* symbol
AfterSymbol(fr, c) ==
    IF ~c.ok
    THEN [fr EXCEPT !.ok = FALSE, !.depth = Max(@, c.depth)]
    ELSE IF EPSILON \notin c.val
    THEN [fr EXCEPT !.fs = c.fs, !.first = @ \cup (c.val \ {EPSILON}),
                    !.depth = Max(@, c.depth), !.i = @ + 1, !.j = 1]
    ELSE [fr EXCEPT !.fs = c.fs, !.first = @ \cup (c.val \ {EPSILON}),
                    !.depth = Max(@, c.depth), !.j = @ + 1]

\* the production and the symbol the loops of a frame are at
ProductionAt(fr) == ProdsOf(grammar, fr.symbol)[fr.i]
SymbolAt(fr) == ProductionAt(fr)[fr.j]
LoopsDone(fr) == fr.i > Len(ProdsOf(grammar, fr.symbol))
EpsilonDue(fr) ==
    ProductionAt(fr) = <<EPSILON>> \/ fr.j > Len(ProductionAt(fr))

\* what compute_first answers without looking at productions, lines 21-26
\* and the empty set of a symbol that has none
LeafFirst(symbol) ==
    IF symbol \in terminals THEN {symbol}
    ELSE IF symbol = EPSILON THEN {EPSILON}
    ELSE {}
HasLoops(symbol) ==
    symbol \notin terminals /\ symbol # EPSILON /\ symbol \in Heads(grammar)

RECURSIVE compute_first(_, _, _)
RECURSIVE FirstOfProductions(_)

\* the loops "for production in grammar.get(symbol, [])" and "for sym in
\* production" from the position of the frame on, then lines 41-42:
\* "first_sets[symbol] = first; return first"
FirstOfProductions(fr) ==
    CASE ~fr.ok -> Ret(fr.fs, {}, FALSE, fr.depth)
      [] fr.ok /\ LoopsDone(fr) ->
            Ret((fr.symbol :> fr.first) @@ fr.fs, fr.first, TRUE, fr.depth)
      [] fr.ok /\ ~LoopsDone(fr) /\ EpsilonDue(fr) ->
            CHOOSE r \in {FirstOfProductions(n) : n \in {AddEpsilon(fr)}} : TRUE
      [] OTHER ->
            CHOOSE r \in
                {FirstOfProductions(n) :
                    n \in {AfterSymbol(fr, c) :
                              c \in {compute_first(SymbolAt(fr), fr.fs,
                                                   fr.d + 1)}}} : TRUE

\* compute_first(symbol) called at nesting depth d with memo fs
compute_first(symbol, fs, d) ==
    CASE TooDeep(d) -> Ret(fs, {}, FALSE, d)
      [] ~TooDeep(d) /\ symbol \in DOMAIN fs -> Ret(fs, fs[symbol], TRUE, d)
      [] ~TooDeep(d) /\ symbol \notin DOMAIN fs /\ HasLoops(symbol) ->
            FirstOfProductions(Frame(symbol, d, fs))
      [] OTHER ->
            Ret((symbol :> LeafFirst(symbol)) @@ fs, LeafFirst(symbol), TRUE, d)

\* compute_first_of_sequence(sequence) with memo fs; the calls to
\* compute_first may add symbols to the memo.  sq holds the locals of the
\* loop: the position j, the memo, "result", and whether the loop has
\* returned
AfterSequenceSymbol(sq, c) ==
    IF EPSILON \notin c.val
    THEN [sq EXCEPT !.fs = c.fs, !.result = @ \cup (c.val \ {EPSILON}),
                    !.returned = TRUE]
    ELSE [sq EXCEPT !.fs = c.fs, !.result = @ \cup (c.val \ {EPSILON}),
                    !.j = @ + 1]

RECURSIVE FirstOfSequenceFrom(_)
FirstOfSequenceFrom(sq) ==
    CASE sq.returned -> [fs |-> sq.fs, val |-> sq.result]
      [] ~sq.returned /\ sq.j > Len(sq.sequence) ->
            [fs |-> sq.fs, val |-> sq.result \cup {EPSILON}]
      [] OTHER ->
            CHOOSE r \in
                {FirstOfSequenceFrom(n) :
                    n \in {AfterSequenceSymbol(sq, c) :
                              c \in {compute_first(sq.sequence[sq.j], sq.fs,
                                                   2)}}} : TRUE

compute_first_of_sequence(sequence, fs) ==
    IF sequence = <<>>
    THEN [fs |-> fs, val |-> {EPSILON}]
    ELSE FirstOfSequenceFrom([sequence |-> sequence, j |-> 1, fs |-> fs,
                              result |-> {}, returned |-> FALSE])

----------------------------------------------------------------------------
(* expt 6/6a.py: FOLLOW, one pass of the "while updated" loop *)

\* "not to_add.issubset(target)"
NotSubset(to_add, target) == ~(to_add \subseteq target)

\* lines 77-80; st = [fs, fo, updated]
AddFirstOfBeta(B, to_add, st) ==
    IF NotSubset(to_add, st.fo[B])
    THEN [st EXCEPT !.fo[B] = @ \cup to_add, !.updated = TRUE]
    ELSE st

\* lines 82-85
AddFollowOfHead(A, B, vanishes, st) ==
    IF vanishes /\ NotSubset(st.fo[A], st.fo[B])
    THEN [st EXCEPT !.fo[B] = @ \cup st.fo[A], !.updated = TRUE]
    ELSE st

\* lines 74-85 for one occurrence of nonterminal B in a production of A,
\* fb being compute_first_of_sequence(beta)
FollowAt(A, B, beta, fb, st) ==
    AddFollowOfHead(A, B, beta = <<>> \/ EPSILON \in fb.val,
                    AddFirstOfBeta(B, fb.val \ {EPSILON},
                                   [st EXCEPT !.fs = fb.fs]))

\* the loop "for i, B in enumerate(prod)"
RECURSIVE FollowOfPositions(_, _, _, _)
FollowOfPositions(A, prod, i, st) ==
    CASE i > Len(prod) -> st
      [] i <= Len(prod) /\ prod[i] \notin non_terminals ->
            FollowOfPositions(A, prod, i + 1, st)
      [] OTHER ->
            CHOOSE r \in
                {FollowOfPositions(A, prod, i + 1, n) :
                    n \in {FollowAt(A, prod[i], SubSeq(prod, i + 1, Len(prod)),
                                    fb, st) :
                              fb \in {compute_first_of_sequence(
                                          SubSeq(prod, i + 1, Len(prod)),
                                          st.fs)}}} : TRUE

\* the loop "for prod in productions"
RECURSIVE FollowOfProductions(_, _, _, _)
FollowOfProductions(A, prods, k, st) ==
    IF k > Len(prods) THEN st
    ELSE CHOOSE r \in
             {FollowOfProductions(A, prods, k + 1, n) :
                 n \in {FollowOfPositions(A, prods[k], 1, st)}} : TRUE

\* the loop "for A, productions in grammar.items()"
RECURSIVE FollowOfRules(_, _)
FollowOfRules(a, st) ==
    IF a > Len(grammar) THEN st
    ELSE CHOOSE r \in
             {FollowOfRules(a + 1, n) :
                 n \in {FollowOfProductions(grammar[a].head, grammar[a].prods,
                                            1, st)}} : TRUE

\* one pass of compute_all_follow_sets over the whole grammar
FollowPass6(fs, fo) ==
    FollowOfRules(1, [fs |-> fs, fo |-> fo, updated |-> FALSE])

\* lines 59-61: every nonterminal empty, the end marker in FOLLOW(start)
FollowInit6 ==
    [nt \in non_terminals |-> IF nt = start_symbol THEN {END_MARKER} ELSE {}]

----------------------------------------------------------------------------
(* expt 6/6a.py: construct_parsing_table *)

\* lines 89-93: every cell of every nonterminal's row is None
EmptyTable ==
    [nt \in non_terminals |-> [t \in terminals \cup {END_MARKER} |-> None]]

\* "parsing_table[nt][terminal] is not None"
Occupied(table, nt, terminal) == table[nt][terminal] # None

\* "parsing_table[nt][terminal] = prod" for every terminal of a set
SetCells(table, nt, ts, prod) ==
    [table EXCEPT ![nt] = [t \in DOMAIN @ |-> IF t \in ts THEN prod ELSE @[t]]]

Filled(fs, table) == [ok |-> TRUE, fs |-> fs, table |-> table]
Collision(fs, table, nt, prod, ts) ==
    [ok |-> FALSE, fs |-> fs, table |-> table, nt |-> nt, prod |-> prod,
     hit |-> {t \in ts : Occupied(table, nt, t)},
     free |-> {t \in ts : ~Occupied(table, nt, t)}]

\* lines 106-113: the cells of FOLLOW(nt) when the production can vanish
FollowCells(nt, prod, table, fs, ts) ==
    IF \E t \in ts : Occupied(table, nt, t)
    THEN Collision(fs, table, nt, prod, ts)
    ELSE Filled(fs, SetCells(table, nt, ts, prod))

\* a faulty variant of FirstCells: the test "is not None" is left out, a
\* later production overwrites the cell
FirstCellsOverwriting(nt, prod, table, fp) ==
    FollowCells(nt, prod, SetCells(table, nt, fp.val \ {EPSILON}, prod),
                fp.fs, IF EPSILON \in fp.val THEN follow_sets[nt] ELSE {})

\* lines 98-104: the cells of FIRST(prod) minus epsilon.  Without a conflict
\* the cells of both loops are set.  With one, the loop that met it is named
\* by the table as it was when that loop began, the terminals whose cell is
\* occupied (one of them is reported, whichever the set iteration reaches
\* first) and the free ones (set if reached before it).
FirstCells(nt, prod, table, fp) ==
    IF \E t \in fp.val \ {EPSILON} : Occupied(table, nt, t)
    THEN Collision(fp.fs, table, nt, prod, fp.val \ {EPSILON})
    ELSE FollowCells(nt, prod,
                     SetCells(table, nt, fp.val \ {EPSILON}, prod), fp.fs,
                     IF EPSILON \in fp.val THEN follow_sets[nt] ELSE {})

\* a faulty variant of Returned: no "return False", the loops go on after a
\* conflict
NeverReturned(r) == FALSE

\* lines 103 and 112: "return False" leaves both loops at the conflict
Returned(r) == ~r.ok

\* the loop "for prod in productions" of rule a
RECURSIVE TableOfProductions(_, _, _)
TableOfProductions(a, k, r) ==
    CASE Returned(r) -> r
      [] ~Returned(r) /\ k > Len(grammar[a].prods) -> r
      [] OTHER ->
            CHOOSE x \in
                {TableOfProductions(a, k + 1, n) :
                    n \in {FirstCells(grammar[a].head, grammar[a].prods[k],
                                      r.table, fp) :
                              fp \in {compute_first_of_sequence(
                                          grammar[a].prods[k], r.fs)}}} : TRUE

\* the loop "for nt, productions in grammar.items()"
RECURSIVE TableOfRules(_, _)
TableOfRules(a, r) ==
    CASE Returned(r) -> r
      [] ~Returned(r) /\ a > Len(grammar) -> r
      [] OTHER ->
            CHOOSE x \in
                {TableOfRules(a + 1, n) :
                    n \in {TableOfProductions(a, 1, r)}} : TRUE

construct_parsing_table ==
    CHOOSE x \in {TableOfRules(1, r) :
                     r \in {Filled(first_sets, EmptyTable)}} : TRUE

\* the record of the three lines printed for a conflict
Conflict(nt, terminal, existing, new) ==
    [nt |-> nt, terminal |-> terminal, existing |-> existing, new |-> new]

\* a faulty variant of AfterTable: main ignores the value returned
AfterTableIgnoringResult(ok) == "input"

\* main, lines 287-291: halt when the table could not be built
AfterTable(ok) == IF ok THEN "input" ELSE "halt"

----------------------------------------------------------------------------
(* expt 6/6a.py: parse_input_string *)

\* the input strings tried: every string of up to MaxInputLen tokens over
\* the grammar's terminals, the end marker and a token foreign to the
\* grammar, and the two strings of the expression-grammar scenarios
UNKNOWN == "x"
ExprAccepted == <<"id", "+", "id", "*", "id">>
ExprRejected == <<"id", "+">>
Inputs(g) ==
    SetToSeqs(Terminals(g) \cup {END_MARKER, UNKNOWN}, MaxInputLen)
    \cup (IF g = ExprGrammar THEN {ExprAccepted, ExprRejected} ELSE {})

\* a faulty variant of Reverse: the production is pushed as it is written
Unreversed(seq) == seq

\* "reversed(production)"
Reverse(seq) == [i \in 1..Len(seq) |-> seq[Len(seq) + 1 - i]]
Pop(stk) == SubSeq(stk, 1, Len(stk) - 1)

\* a faulty variant of ApplyProduction: the pop is made only when symbols
\* are pushed, the epsilon production leaves the stack as it is
ApplyProductionKeepingTop(stk, production) ==
    IF production # <<EPSILON>>
    THEN Pop(stk) \o Reverse(production)
    ELSE stk

\* lines 200-203: pop the nonterminal, push the production reversed unless
\* it is the epsilon production
ApplyProduction(stk, production) ==
    IF production # <<EPSILON>>
    THEN Pop(stk) \o Reverse(production)
    ELSE Pop(stk)

\* "parsing_table[top_of_stack].get(current_input)"
TableGet(table, top_of_stack, current_input) ==
    IF current_input \in DOMAIN table[top_of_stack]
    THEN table[top_of_stack][current_input]
    ELSE None

Act(kind, top, input, production) ==
    [kind |-> kind, top |-> top, input |-> input, production |-> production]

\* a faulty variant of the success test: the test is left out, the loop
\* runs until the stack is empty
SucceededNever(top_of_stack, current_input) == FALSE

\* a faulty variant of the success test: the stack top is not looked at
SucceededAtEndOfInput(top_of_stack, current_input) ==
    current_input = END_MARKER

\* lines 216-218: success is tested at the end of an iteration that did not
\* return
Succeeded(top_of_stack, current_input) ==
    top_of_stack = END_MARKER /\ current_input = END_MARKER

Go(a, stk, ip) ==
    [action |-> a, stack |-> stk, input_pointer |-> ip,
     outcome |-> IF Succeeded(a.top, a.input) THEN "accept" ELSE ""]
Stop(a, stk, ip, o) ==
    [action |-> a, stack |-> stk, input_pointer |-> ip, outcome |-> o]

\* a faulty variant of OnNonTerminal: applying a production consumes the
\* current token
OnNonTerminalAdvancing(stk, ip, top_of_stack, current_input, production) ==
    IF production = None
    THEN Stop(Act("error", top_of_stack, current_input, None), stk, ip,
              "no_table_entry")
    ELSE Go(Act("apply", top_of_stack, current_input, production),
            ApplyProduction(stk, production), ip + 1)

\* lines 190-208: a nonterminal on top
OnNonTerminal(stk, ip, top_of_stack, current_input, production) ==
    IF production = None
    THEN Stop(Act("error", top_of_stack, current_input, None), stk, ip,
              "no_table_entry")
    ELSE Go(Act("apply", top_of_stack, current_input, production),
            ApplyProduction(stk, production), ip)

\* a faulty variant of OnTerminal: a mismatch that pops the stack top
OnTerminalPoppingOnMismatch(stk, ip, top_of_stack, current_input) ==
    IF top_of_stack = current_input
    THEN Go(Act("match", top_of_stack, current_input, None), Pop(stk), ip + 1)
    ELSE Stop(Act("error", top_of_stack, current_input, None), Pop(stk), ip,
              "mismatch")

\* a faulty variant of OnTerminal: a match that leaves the cursor in place
OnTerminalNotAdvancing(stk, ip, top_of_stack, current_input) ==
    IF top_of_stack = current_input
    THEN Go(Act("match", top_of_stack, current_input, None), Pop(stk), ip)
    ELSE Stop(Act("error", top_of_stack, current_input, None), stk, ip,
              "mismatch")

\* lines 178-188: a terminal or the end marker on top
OnTerminal(stk, ip, top_of_stack, current_input) ==
    IF top_of_stack = current_input
    THEN Go(Act("match", top_of_stack, current_input, None), Pop(stk), ip + 1)
    ELSE Stop(Act("error", top_of_stack, current_input, None), stk, ip,
              "mismatch")

\* one iteration of "while stack", lines 172-218
ParseIteration(g, table, stk, ip, top_of_stack, current_input) ==
    IF top_of_stack \in Terminals(g) \/ top_of_stack = END_MARKER
    THEN OnTerminal(stk, ip, top_of_stack, current_input)
    ELSE IF top_of_stack \in NonTerminals(g)
    THEN OnNonTerminal(stk, ip, top_of_stack, current_input,
                       TableGet(table, top_of_stack, current_input))
    ELSE Stop(Act("error", top_of_stack, current_input, None), stk, ip,
              "unknown_symbol")

----------------------------------------------------------------------------
(* expt 4/main.py: the loaded grammar and the iterative solvers *)

\* tokenize_alternative: every symbol normalised (the symbols of the model
\* are not split any further by split_token)
RECURSIVE NormalizeSeq(_)
NormalizeSeq(seq) ==
    IF seq = <<>> THEN <<>>
    ELSE <<normalize_symbol(Head(seq))>> \o NormalizeSeq(Tail(seq))
parse_grammar_file(g) ==
    [i \in 1..Len(g) |->
        Rule(g[i].head,
             [k \in 1..Len(g[i].prods) |-> NormalizeSeq(g[i].prods[k])])]

is_nonterminal(symbol, g) == symbol \in Heads(g)

\* a faulty variant of update_set: a change is reported whenever there is
\* something to add, new to the target or not
UpdateSetAlwaysChanged(target, additions) == additions # {}

\* update_set, and the before_size test of compute_first_sets: whether
\* adding the additions changes the size of the target
update_set(target, additions) ==
    Cardinality(target \cup additions) # Cardinality(target)

\* lines 161-166
SymbolFirst4(g, symbol, fs) ==
    IF symbol = EPSILON4 THEN {EPSILON4}
    ELSE IF is_nonterminal(symbol, g) THEN fs[symbol]
    ELSE {symbol}

\* lines 168-171; st = [fs, changed]
Grow4(nt, additions, st) ==
    [fs |-> [st.fs EXCEPT ![nt] = @ \cup additions],
     changed |-> st.changed \/ update_set(st.fs[nt], additions)]

\* lines 152-154 and 177-180
AddEpsilon4(nt, st) ==
    IF EPSILON4 \notin st.fs[nt]
    THEN [fs |-> [st.fs EXCEPT ![nt] = @ \cup {EPSILON4}], changed |-> TRUE]
    ELSE st

\* the loop "for symbol in production" with derives_epsilon
RECURSIVE FirstWalk4(_, _, _, _, _)
AfterSymbol4(g, nt, production, j, symbol_first, st) ==
    IF EPSILON4 \notin symbol_first
    THEN Grow4(nt, symbol_first \ {EPSILON4}, st)
    ELSE CHOOSE r \in
             {FirstWalk4(g, nt, production, j + 1, n) :
                 n \in {Grow4(nt, symbol_first \ {EPSILON4}, st)}} : TRUE

FirstWalk4(g, nt, production, j, st) ==
    IF j > Len(production) THEN AddEpsilon4(nt, st)
    ELSE AfterSymbol4(g, nt, production, j,
                      SymbolFirst4(g, production[j], st.fs), st)

\* lines 151-180 for one production
FirstOfProduction4(g, nt, production, st) ==
    IF production = <<EPSILON4>>
    THEN AddEpsilon4(nt, st)
    ELSE FirstWalk4(g, nt, production, 1, st)

\* the loop "for production in production_list"
RECURSIVE FirstOfProductions4(_, _, _, _, _)
FirstOfProductions4(g, nt, prods, k, st) ==
    IF k > Len(prods) THEN st
    ELSE CHOOSE r \in
             {FirstOfProductions4(g, nt, prods, k + 1, n) :
                 n \in {FirstOfProduction4(g, nt, prods[k], st)}} : TRUE

\* the loop "for non_terminal, production_list in grammar.items()"
RECURSIVE FirstOfRules4(_, _, _)
FirstOfRules4(g, a, st) ==
    IF a > Len(g) THEN st
    ELSE CHOOSE r \in
             {FirstOfRules4(g, a + 1, n) :
                 n \in {FirstOfProductions4(g, g[a].head, g[a].prods, 1,
                                            st)}} : TRUE

\* one pass of the "while changed" loop of compute_first_sets
FirstPass4(g, fs) == FirstOfRules4(g, 1, [fs |-> fs, changed |-> FALSE])

\* line 144
FirstInit4(g) == [nt \in Heads(g) |-> {}]

\* compute_first_sets: the "while changed" loop run to its exit
RECURSIVE FirstPassesFrom(_, _)
FirstPassesFrom(g, fs) ==
    CHOOSE r \in
        {IF st.changed THEN FirstPassesFrom(g, st.fs) ELSE st.fs :
            st \in {FirstPass4(g, fs)}} : TRUE
compute_first_sets(g) == FirstPassesFrom(g, FirstInit4(g))

\* first_of_sequence(sequence, first_sets, grammar)
RECURSIVE FirstOfSequence4From(_, _, _, _, _)
AfterSequenceSymbol4(g, sequence, j, fs, result, symbol_first) ==
    IF EPSILON4 \notin symbol_first
    THEN result \cup (symbol_first \ {EPSILON4})
    ELSE FirstOfSequence4From(g, sequence, j + 1, fs,
                              result \cup (symbol_first \ {EPSILON4}))

FirstOfSequence4From(g, sequence, j, fs, result) ==
    IF j > Len(sequence) THEN result \cup {EPSILON4}
    ELSE IF sequence[j] = EPSILON4
         THEN FirstOfSequence4From(g, sequence, j + 1, fs,
                                   result \cup {EPSILON4})
         ELSE AfterSequenceSymbol4(g, sequence, j, fs, result,
                  IF is_nonterminal(sequence[j], g) THEN fs[sequence[j]]
                  ELSE {sequence[j]})

first_of_sequence(sequence, fs, g) ==
    IF sequence = <<>> THEN {EPSILON4}
    ELSE FirstOfSequence4From(g, sequence, 1, fs, {})

\* a faulty variant of the update of a FOLLOW set: the additions replace the
\* set instead of being added to it
Grow4FollowReplacing(symbol, additions, st) ==
    [fo |-> [st.fo EXCEPT ![symbol] = additions],
     changed |-> st.changed \/ update_set(st.fo[symbol], additions)]

\* lines 241-246 for one occurrence of a nonterminal; st = [fo, changed]
Grow4Follow(symbol, additions, st) ==
    [fo |-> [st.fo EXCEPT ![symbol] = @ \cup additions],
     changed |-> st.changed \/ update_set(st.fo[symbol], additions)]

FollowAt4(head, symbol, remainder, lookahead_first, st) ==
    IF remainder = <<>> \/ EPSILON4 \in lookahead_first
    THEN CHOOSE r \in
             {Grow4Follow(symbol, n.fo[head], n) :
                 n \in {Grow4Follow(symbol, lookahead_first \ {EPSILON4},
                                    st)}} : TRUE
    ELSE Grow4Follow(symbol, lookahead_first \ {EPSILON4}, st)

\* the loop "for index, symbol in enumerate(production)"
RECURSIVE FollowOfPositions4(_, _, _, _, _, _)
FollowOfPositions4(g, fs, head, production, i, st) ==
    CASE i > Len(production) -> st
      [] i <= Len(production) /\ ~is_nonterminal(production[i], g) ->
            FollowOfPositions4(g, fs, head, production, i + 1, st)
      [] OTHER ->
            CHOOSE r \in
                {FollowOfPositions4(g, fs, head, production, i + 1, n) :
                    n \in {FollowAt4(head, production[i],
                                     SubSeq(production, i + 1, Len(production)),
                                     lookahead_first, st) :
                              lookahead_first \in
                                  {first_of_sequence(
                                       SubSeq(production, i + 1,
                                              Len(production)),
                                       fs, g)}}} : TRUE

RECURSIVE FollowOfProductions4(_, _, _, _, _, _)
FollowOfProductions4(g, fs, head, prods, k, st) ==
    IF k > Len(prods) THEN st
    ELSE CHOOSE r \in
             {FollowOfProductions4(g, fs, head, prods, k + 1, n) :
                 n \in {FollowOfPositions4(g, fs, head, prods[k], 1,
                                           st)}} : TRUE

RECURSIVE FollowOfRules4(_, _, _, _)
FollowOfRules4(g, fs, a, st) ==
    IF a > Len(g) THEN st
    ELSE CHOOSE r \in
             {FollowOfRules4(g, fs, a + 1, n) :
                 n \in {FollowOfProductions4(g, fs, g[a].head, g[a].prods, 1,
                                             st)}} : TRUE

\* one pass of the "while changed" loop of compute_follow_sets
FollowPass4(g, fs, fo) ==
    FollowOfRules4(g, fs, 1, [fo |-> fo, changed |-> FALSE])

\* a faulty variant of the initialisation: the end marker is left out
FollowInit4WithoutMarker(g) == [nt \in Heads(g) |-> {}]

\* lines 226-227
FollowInit4(g) ==
    [nt \in Heads(g) |-> IF nt = StartSymbol(g) THEN {"$"} ELSE {}]

\* compute_follow_sets: the initialisation and the "while changed" loop run
\* to its exit
RECURSIVE FollowPassesFrom(_, _, _)
FollowPassesFrom(g, fs, fo) ==
    CHOOSE r \in
        {IF st.changed THEN FollowPassesFrom(g, fs, st.fo) ELSE st.fo :
            st \in {FollowPass4(g, fs, fo)}} : TRUE
compute_follow_sets(g, fs) == FollowPassesFrom(g, fs, FollowInit4(g))

----------------------------------------------------------------------------
(* expt 4/first_n_follow.py: the loaded grammar, cal_first and cal_follow *)

EPSILON_ALIASES == {EPSILON4, "#", "epsilon", "EPSILON", "lambda", "Λ", "eps"}

\* normalize_symbol of first_n_follow.py
normalize_alias(token) == IF token \in EPSILON_ALIASES THEN EPSILON4 ELSE token

\* parse_grammar: every symbol of every alternative normalised
parse_grammar(g) ==
    [i \in 1..Len(g) |->
        Rule(g[i].head,
             [k \in 1..Len(g[i].prods) |->
                 [j \in 1..Len(g[i].prods[k]) |->
                     normalize_alias(g[i].prods[k][j])]])]

\* the result of a call of cal_first or cal_follow: the memo after it and
\* the set returned
Got(memo, val) == [memo |-> memo, val |-> val]

\* the locals of a call cal_first(s) that has reached its loops: the
\* production i and its symbol j the loops are at, the memo, the set "first"
\* and the set "visiting" with s added
FirstFrame(s, memo, visiting) ==
    [s |-> s, i |-> 1, j |-> 1, memo |-> memo, first |-> {},
     visiting |-> visiting \cup {s}]

\* lines 34-36 and 58-59: epsilon is added for an empty production and for
\* one whose symbol loop ended without a break
AllCanBeEpsilon(fr) ==
    [fr EXCEPT !.first = @ \cup {EPSILON4}, !.i = @ + 1, !.j = 1]

\* lines 41-42: the epsilon symbol is passed over
SkipEpsilon(fr) == [fr EXCEPT !.j = @ + 1]

\* lines 49-52: a symbol without productions is added, the loop breaks
AddTerminal(fr, symbol) ==
    [fr EXCEPT !.first = @ \cup {symbol}, !.i = @ + 1, !.j = 1]

\* lines 45-48 and 54-56: sub_first is in hand as the result c of the nested
\* call; it is added without epsilon, then the loop goes on to the next
\* symbol or breaks
AfterSubFirst(fr, c) ==
    IF EPSILON4 \in c.val
    THEN [fr EXCEPT !.memo = c.memo, !.first = @ \cup (c.val \ {EPSILON4}),
                    !.j = @ + 1]
    ELSE [fr EXCEPT !.memo = c.memo, !.first = @ \cup (c.val \ {EPSILON4}),
                    !.i = @ + 1, !.j = 1]

CalProductionAt(fr) == ProdsOf(grammar, fr.s)[fr.i]
CalSymbolAt(fr) == CalProductionAt(fr)[fr.j]
CalLoopsDone(fr) == fr.i > Len(ProdsOf(grammar, fr.s))
CalProductionDone(fr) == fr.j > Len(CalProductionAt(fr))

RECURSIVE cal_first(_, _, _)
RECURSIVE CalFirstLoops(_)

\* the loops "for production in productions[s]" and "for symbol in
\* production" from the position of the frame on, then lines 61-63:
\* "visiting.remove(s); memo[s] = first; return first"
CalFirstLoops(fr) ==
    CASE CalLoopsDone(fr) -> Got((fr.s :> fr.first) @@ fr.memo, fr.first)
      [] ~CalLoopsDone(fr) /\ CalProductionDone(fr) ->
            CHOOSE r \in {CalFirstLoops(n) : n \in {AllCanBeEpsilon(fr)}} : TRUE
      [] ~CalLoopsDone(fr) /\ ~CalProductionDone(fr)
         /\ CalSymbolAt(fr) = EPSILON4 ->
            CHOOSE r \in {CalFirstLoops(n) : n \in {SkipEpsilon(fr)}} : TRUE
      [] ~CalLoopsDone(fr) /\ ~CalProductionDone(fr)
         /\ CalSymbolAt(fr) # EPSILON4 /\ CalSymbolAt(fr) \notin Heads(grammar) ->
            CHOOSE r \in {CalFirstLoops(n) :
                             n \in {AddTerminal(fr, CalSymbolAt(fr))}} : TRUE
      [] OTHER ->
            CHOOSE r \in
                {CalFirstLoops(n) :
                    n \in {AfterSubFirst(fr, c) :
                              c \in {cal_first(CalSymbolAt(fr), fr.memo,
                                               fr.visiting)}}} : TRUE

\* cal_first(s, productions, memo, visiting), lines 21-31
cal_first(s, memo, visiting) ==
    CASE s \in DOMAIN memo -> Got(memo, memo[s])
      [] s \notin DOMAIN memo /\ s \notin Heads(grammar) ->
            Got(memo, {normalize_alias(s)})
      [] s \notin DOMAIN memo /\ s \in Heads(grammar) /\ s \in visiting ->
            Got(memo, {})
      [] OTHER -> CalFirstLoops(FirstFrame(s, memo, visiting))

\* lines 100-121: the walk over the symbols after an occurrence, from
\* next_idx (1-based) on.  It gives the symbols added to "follow" and
\* whether the while loop ended without a break
RECURSIVE WalkAfter(_, _, _, _)
WalkAfter(production, next_idx, first, added) ==
    CASE next_idx > Len(production) -> [added |-> added, ended |-> TRUE]
      [] next_idx <= Len(production) /\ production[next_idx] = EPSILON4 ->
            WalkAfter(production, next_idx + 1, first, added)
      [] next_idx <= Len(production) /\ production[next_idx] # EPSILON4
         /\ production[next_idx] \notin Heads(grammar) ->
            [added |-> added \cup {production[next_idx]}, ended |-> FALSE]
      [] next_idx <= Len(production) /\ production[next_idx] # EPSILON4
         /\ production[next_idx] \in Heads(grammar)
         /\ EPSILON4 \in first[production[next_idx]] ->
            WalkAfter(production, next_idx + 1, first,
                      added \cup (first[production[next_idx]] \ {EPSILON4}))
      [] OTHER ->
            [added |-> added \cup (first[production[next_idx]] \ {EPSILON4}),
             ended |-> FALSE]

\* "follow.update(...)": follow is the set object stored in memo[s]
FollowUpdate(s, additions, memo) == [memo EXCEPT ![s] = @ \cup additions]

RECURSIVE cal_follow(_, _, _, _)

\* lines 94-98 and 117-121: FOLLOW(head) is added unless head is s itself
AddFollowOfHeadFnf(s, head, first, memo, visiting) ==
    IF head # s
    THEN CHOOSE m \in {FollowUpdate(s, c.val, c.memo) :
                          c \in {cal_follow(head, first, memo, visiting)}} : TRUE
    ELSE memo

\* lines 94-121 for the occurrence of s at position idx (1-based) of a
\* production of head
AtOccurrence(s, head, production, idx, first, memo, visiting) ==
    IF idx = Len(production)
    THEN AddFollowOfHeadFnf(s, head, first, memo, visiting)
    ELSE CHOOSE m \in
             {IF w.ended
              THEN AddFollowOfHeadFnf(s, head, first,
                                      FollowUpdate(s, w.added, memo), visiting)
              ELSE FollowUpdate(s, w.added, memo) :
                 w \in {WalkAfter(production, idx + 1, first, {})}} : TRUE

\* the loop "for idx in indices"
RECURSIVE OverIndices(_, _, _, _, _, _, _)
OverIndices(s, head, production, idx, first, memo, visiting) ==
    CASE idx > Len(production) -> memo
      [] idx <= Len(production) /\ production[idx] # s ->
            OverIndices(s, head, production, idx + 1, first, memo, visiting)
      [] OTHER ->
            CHOOSE r \in
                {OverIndices(s, head, production, idx + 1, first, m, visiting) :
                    m \in {AtOccurrence(s, head, production, idx, first, memo,
                                        visiting)}} : TRUE

\* the loop "for production in rules"
RECURSIVE OverRules(_, _, _, _, _, _, _)
OverRules(s, head, rules, k, first, memo, visiting) ==
    IF k > Len(rules) THEN memo
    ELSE CHOOSE r \in
             {OverRules(s, head, rules, k + 1, first, m, visiting) :
                 m \in {OverIndices(s, head, rules[k], 1, first, memo,
                                    visiting)}} : TRUE

\* the loop "for head, rules in productions.items()"
RECURSIVE OverHeads(_, _, _, _, _)
OverHeads(s, a, first, memo, visiting) ==
    IF a > Len(grammar) THEN memo
    ELSE CHOOSE r \in
             {OverHeads(s, a + 1, first, m, visiting) :
                 m \in {OverRules(s, grammar[a].head, grammar[a].prods, 1,
                                  first, memo, visiting)}} : TRUE

\* lines 77-88: the entry of s is created in memo; the start symbol gets '$'
Entered(s, memo) ==
    (s :> (IF s = start_symbol THEN {"$"} ELSE {})) @@ memo

\* cal_follow(s, productions, first, memo, visiting, start_symbol)
cal_follow(s, first, memo, visiting) ==
    CASE s \in DOMAIN memo -> Got(memo, memo[s])
      [] s \notin DOMAIN memo
         /\ (s \notin Heads(grammar) \/ s \in visiting) ->
            Got((s :> {}) @@ memo, {})
      [] OTHER ->
            CHOOSE r \in
                {Got(m, m[s]) :
                    m \in {OverHeads(s, 1, first, Entered(s, memo),
                                     visiting \cup {s})}} : TRUE

----------------------------------------------------------------------------
(* Initial states: a program and its loaded grammar, nothing computed yet *)

EmptyMap == [s \in {} |-> {}]
NoAction == Act("", "", "", None)

Init ==
    /\ prog \in {"6a", "main4", "fnf"}
    /\ \E g \in Grammars :
         grammar = CASE prog = "main4" -> parse_grammar_file(g)
                     [] prog = "fnf" -> parse_grammar(g)
                     [] OTHER -> g
    /\ stage = CASE prog = "main4" -> "first_sets"
                  [] prog = "fnf" -> "cal_first"
                  [] OTHER -> "first"
    /\ first_sets = IF prog = "main4" THEN FirstInit4(grammar) ELSE EmptyMap
    /\ first_memo = EmptyMap
    /\ follow_memo = EmptyMap
    /\ todo = CASE prog = "main4" -> {}
                 [] prog = "fnf" -> Heads(grammar)
                 [] OTHER -> NonTerminals(grammar)
    /\ depth = 0
    /\ follow_sets = EmptyMap
    /\ parsing_table = EmptyMap
    /\ report = <<>>
    /\ tokens = <<>>
    /\ stack = <<>>
    /\ input_pointer = 0
    /\ action = NoAction
    /\ applied = <<>>
    /\ outcome = ""
    /\ sequence_in = <<>>
    /\ sequence_first = EmptyMap

----------------------------------------------------------------------------
(* expt 6/6a.py: main *)

FirstReturned(nt, r) ==
    /\ first_sets' = r.fs
    /\ todo' = todo \ {nt}
    /\ stage' = IF todo \ {nt} = {} THEN "follow" ELSE "first"
    /\ depth' = Max(depth, r.depth)
    /\ outcome' = outcome

FirstRaised(r) ==
    /\ stage' = "crashed"
    /\ depth' = Max(depth, r.depth)
    /\ outcome' = "RecursionError"
    /\ UNCHANGED <<first_sets, todo>>

FirstOutcome(nt, r) == IF r.ok THEN FirstReturned(nt, r) ELSE FirstRaised(r)

\* one iteration of "for nt in non_terminals: compute_first(nt)"; a set is
\* iterated in an arbitrary order
ComputeFirstNT ==
    /\ prog = "6a" /\ stage = "first"
    /\ \E nt \in todo :
         \E r \in {compute_first(nt, first_sets, 1)} :
             FirstOutcome(nt, r)
    /\ UNCHANGED <<first_memo, follow_memo>>
    /\ UNCHANGED seq_vars
    /\ UNCHANGED <<prog, grammar, follow_sets, parsing_table, report, tokens,
                   stack, input_pointer, action, applied>>

\* compute_all_follow_sets: the initialisation before the loop
ComputeAllFollowSetsInit ==
    /\ prog = "6a" /\ stage = "follow"
    /\ follow_sets' = FollowInit6
    /\ stage' = "follow_loop"
    /\ UNCHANGED <<first_memo, follow_memo>>
    /\ UNCHANGED seq_vars
    /\ UNCHANGED <<prog, grammar, first_sets, todo, depth, parsing_table,
                   report, tokens, stack, input_pointer, action, applied,
                   outcome>>

FollowPassed(st) ==
    /\ first_sets' = st.fs
    /\ follow_sets' = st.fo
    /\ stage' = IF st.updated THEN "follow_loop" ELSE "table"

\* compute_all_follow_sets: one pass of "while updated"; the loop is left
\* after a pass that updated nothing
ComputeAllFollowSetsPass ==
    /\ prog = "6a" /\ stage = "follow_loop"
    /\ \E st \in {FollowPass6(first_sets, follow_sets)} :
         FollowPassed(st)
    /\ UNCHANGED <<first_memo, follow_memo>>
    /\ UNCHANGED seq_vars
    /\ UNCHANGED <<prog, grammar, todo, depth, parsing_table, report, tokens,
                   stack, input_pointer, action, applied, outcome>>

TableBuilt(r) ==
    /\ parsing_table' = r.table
    /\ UNCHANGED <<report, outcome>>

TableFailed(r) ==
    \E t \in r.hit : \E before \in SUBSET r.free :
        /\ parsing_table' = SetCells(r.table, r.nt, before, r.prod)
        /\ report' = Append(report,
                            Conflict(r.nt, t, r.table[r.nt][t], r.prod))
        /\ outcome' = "not_ll1"

TableOutcome(r) ==
    /\ first_sets' = r.fs
    /\ stage' = AfterTable(r.ok)
    /\ IF r.ok THEN TableBuilt(r) ELSE TableFailed(r)

\* construct_parsing_table, and main's halt when it returns False
ConstructParsingTable ==
    /\ prog = "6a" /\ stage = "table"
    /\ \E r \in {construct_parsing_table} :
         TableOutcome(r)
    /\ UNCHANGED <<first_memo, follow_memo>>
    /\ UNCHANGED seq_vars
    /\ UNCHANGED <<prog, grammar, todo, depth, follow_sets, tokens, stack,
                   input_pointer, action, applied>>

\* main reads the input string and calls parse_input_string, whose lines
\* 161-163 set up the token list, the stack and the cursor
StartParse ==
    /\ prog = "6a" /\ stage = "input"
    /\ \E input \in Inputs(grammar) :
         /\ tokens' = input \o <<END_MARKER>>
         /\ stack' = <<END_MARKER, start_symbol>>
         /\ input_pointer' = 0
    /\ stage' = "parse"
    /\ UNCHANGED <<first_memo, follow_memo>>
    /\ UNCHANGED seq_vars
    /\ UNCHANGED <<prog, grammar, first_sets, todo, depth, follow_sets,
                   parsing_table, report, action, applied, outcome>>

Iterated(r) ==
    /\ stack' = r.stack
    /\ input_pointer' = r.input_pointer
    /\ action' = r.action
    /\ applied' = IF r.action.kind = "apply" /\ Len(applied) < MaxTrace
                  THEN Append(applied, <<r.action.top, r.action.production>>)
                  ELSE applied
    /\ outcome' = r.outcome
    /\ stage' = IF r.outcome = "" THEN "parse" ELSE "exit"

Left(o, s) ==
    /\ outcome' = o
    /\ stage' = s
    /\ UNCHANGED <<stack, input_pointer, action, applied>>

\* one iteration of the parser's loop; "return False" after the loop when
\* the stack is empty, IndexError when the cursor is past the tokens
ParseStep ==
    /\ prog = "6a" /\ stage = "parse"
    /\ IF stack = <<>> THEN Left("loop_exit", "exit")
       ELSE IF input_pointer >= Len(tokens) THEN Left("IndexError", "crashed")
       ELSE \E r \in {ParseIteration(grammar, parsing_table, stack,
                                     input_pointer, stack[Len(stack)],
                                     tokens[input_pointer + 1])} :
                Iterated(r)
    /\ UNCHANGED <<first_memo, follow_memo>>
    /\ UNCHANGED seq_vars
    /\ UNCHANGED <<prog, grammar, first_sets, todo, depth, follow_sets,
                   parsing_table, report, tokens>>

----------------------------------------------------------------------------
(* expt 4/main.py: main *)

FirstPassed4(st) ==
    /\ first_sets' = st.fs
    /\ stage' = IF st.changed THEN "first_sets" ELSE "follow_init"

\* compute_first_sets: one pass of "while changed"
ComputeFirstSetsPass ==
    /\ prog = "main4" /\ stage = "first_sets"
    /\ \E st \in {FirstPass4(grammar, first_sets)} : FirstPassed4(st)
    /\ UNCHANGED <<first_memo, follow_memo>>
    /\ UNCHANGED seq_vars
    /\ UNCHANGED <<prog, grammar, todo, depth, follow_sets, parsing_table,
                   report, tokens, stack, input_pointer, action, applied,
                   outcome>>

\* compute_follow_sets: the initialisation before the loop
ComputeFollowSetsInit ==
    /\ prog = "main4" /\ stage = "follow_init"
    /\ follow_sets' = FollowInit4(grammar)
    /\ stage' = "follow_sets"
    /\ UNCHANGED <<first_memo, follow_memo>>
    /\ UNCHANGED seq_vars
    /\ UNCHANGED <<prog, grammar, first_sets, todo, depth, parsing_table,
                   report, tokens, stack, input_pointer, action, applied,
                   outcome>>

FollowPassed4(st) ==
    /\ follow_sets' = st.fo
    /\ stage' = IF st.changed THEN "follow_sets" ELSE "done"

\* compute_follow_sets: one pass of "while changed"
ComputeFollowSetsPass ==
    /\ prog = "main4" /\ stage = "follow_sets"
    /\ \E st \in {FollowPass4(grammar, first_sets, follow_sets)} :
         FollowPassed4(st)
    /\ UNCHANGED <<first_memo, follow_memo>>
    /\ UNCHANGED seq_vars
    /\ UNCHANGED <<prog, grammar, first_sets, todo, depth, parsing_table,
                   report, tokens, stack, input_pointer, action, applied,
                   outcome>>

----------------------------------------------------------------------------
(* expt 4/first_n_follow.py: main *)

\* "for s in productions": the first head, in the order of the grammar
\* file, that the loop has not reached yet
NextHead ==
    grammar[CHOOSE i \in 1..Len(grammar) :
                /\ grammar[i].head \in todo
                /\ \A j \in 1..(i - 1) : grammar[j].head \notin todo].head

\* main's dict after "d[s] = call(...)": its values are the set objects of
\* the memo
Stored(d, s, memo) == [h \in DOMAIN d \cup {s} |-> memo[h]]

CalFirstReturned(s, r) ==
    /\ first_sets' = Stored(first_sets, s, r.memo)
    /\ first_memo' = r.memo
    /\ todo' = IF todo = {s} THEN Heads(grammar) ELSE todo \ {s}
    /\ stage' = IF todo = {s} THEN "cal_follow" ELSE "cal_first"

\* one iteration of "for s in productions: first[s] = cal_first(s,
\* productions, first_memo)", lines 178-181
CalFirstNext ==
    /\ prog = "fnf" /\ stage = "cal_first"
    /\ \E r \in {cal_first(NextHead, first_memo, {})} :
         CalFirstReturned(NextHead, r)
    /\ UNCHANGED <<prog, grammar, follow_memo, depth, follow_sets,
                   parsing_table, report, tokens, stack, input_pointer,
                   action, applied, outcome>>
    /\ UNCHANGED seq_vars

CalFollowReturned(s, r) ==
    /\ follow_sets' = Stored(follow_sets, s, r.memo)
    /\ follow_memo' = r.memo
    /\ todo' = todo \ {s}
    /\ stage' = IF todo = {s} THEN "done" ELSE "cal_follow"

\* one iteration of "for s in productions: follow[s] = cal_follow(s,
\* productions, first, follow_memo, start_symbol=start_symbol)", lines 183-187
CalFollowNext ==
    /\ prog = "fnf" /\ stage = "cal_follow"
    /\ \E r \in {cal_follow(NextHead, first_sets, follow_memo, {})} :
         CalFollowReturned(NextHead, r)
    /\ UNCHANGED <<prog, grammar, first_sets, first_memo, depth,
                   parsing_table, report, tokens, stack, input_pointer,
                   action, applied, outcome>>
    /\ UNCHANGED seq_vars

----------------------------------------------------------------------------

Next ==
    \/ ComputeFirstNT
    \/ ComputeAllFollowSetsInit
    \/ ComputeAllFollowSetsPass
    \/ ConstructParsingTable
    \/ StartParse
    \/ ParseStep
    \/ ComputeFirstSetsPass
    \/ ComputeFollowSetsInit
    \/ ComputeFollowSetsPass
    \/ CalFirstNext
    \/ CalFollowNext

Spec == Init /\ [][Next]_vars

\* the programs are sequential: a step that can be taken is taken
FairSpec == Spec /\ WF_vars(Next)

----------------------------------------------------------------------------
(* The sequence-FIRST functions of main.py and 6a.py applied to a sequence *)

\* 6a.py main, "for nt in non_terminals: compute_first(nt)", run to its end
\* from the memo r.fs
RECURSIVE FirstOfAll(_, _)
FirstOfAll(nts, r) ==
    IF nts = {} \/ ~r.ok THEN r
    ELSE CHOOSE q \in
             {FirstOfAll(nts \ {p[1]}, p[2]) :
                 p \in {<<nt, compute_first(nt, r.fs, 1)>> :
                           nt \in {CHOOSE x \in nts : TRUE}}} : TRUE

SequenceSymbols(g) == Heads(g) \cup RhsSymbols(g) \cup {EPSILON}

\* a grammar file on which the FIRST stage of 6a.py returns, the global
\* first_sets as that stage leaves it, and a sequence of symbols of the
\* grammar
SeqInit ==
    /\ prog = "seq"
    /\ stage = "sequence"
    /\ \E g \in Grammars :
         /\ grammar = g
         /\ \E r \in {FirstOfAll(NonTerminals(g), Ret(EmptyMap, {}, TRUE, 0))} :
                r.ok /\ first_sets = r.fs
         /\ sequence_in \in SetToSeqs(SequenceSymbols(g), MaxSeqLen)
    /\ sequence_first = EmptyMap
    /\ first_memo = EmptyMap
    /\ follow_memo = EmptyMap
    /\ todo = {}
    /\ depth = 0
    /\ follow_sets = EmptyMap
    /\ parsing_table = EmptyMap
    /\ report = <<>>
    /\ tokens = <<>>
    /\ stack = <<>>
    /\ input_pointer = 0
    /\ action = NoAction
    /\ applied = <<>>
    /\ outcome = ""

\* main.py: first_of_sequence on the sequence, the grammar and the FIRST
\* sets as main.py loads and computes them from the same file
ApplyFirstOfSequence ==
    /\ prog = "seq" /\ "main.py" \notin DOMAIN sequence_first
    /\ \E g4 \in {parse_grammar_file(grammar)} :
         \E fs \in {compute_first_sets(g4)} :
             sequence_first' =
                 ("main.py" :> first_of_sequence(NormalizeSeq(sequence_in), fs,
                                                 g4)) @@ sequence_first
    /\ UNCHANGED <<prog, grammar, stage, first_sets, first_memo, follow_memo,
                   todo, depth, follow_sets, parsing_table, report, tokens,
                   stack, input_pointer, action, applied, outcome, sequence_in>>

\* 6a.py: compute_first_of_sequence on the sequence
ApplyComputeFirstOfSequence ==
    /\ prog = "seq" /\ "6a.py" \notin DOMAIN sequence_first
    /\ \E r \in {compute_first_of_sequence(sequence_in, first_sets)} :
         /\ sequence_first' = ("6a.py" :> r.val) @@ sequence_first
         /\ first_sets' = r.fs
    /\ UNCHANGED <<prog, grammar, stage, first_memo, follow_memo, todo,
                   depth, follow_sets, parsing_table, report, tokens, stack,
                   input_pointer, action, applied, outcome, sequence_in>>

SeqNext == ApplyFirstOfSequence \/ ApplyComputeFirstOfSequence

SeqSpec == SeqInit /\ [][SeqNext]_vars

----------------------------------------------------------------------------
(* Properties *)

AfterFirst6 == {"follow", "follow_loop", "table", "input", "parse", "exit", "halt"}
AfterFollow6 == {"table", "input", "parse", "exit", "halt"}
AfterTable6 == {"input", "parse", "exit", "halt"}
Ended == {"exit", "halt", "crashed", "done"}

\* FIRST of a production's right-hand side, and the terminals whose cell of
\* row A the production is entered into, by the sets the run has computed
FirstOfProd(p) == compute_first_of_sequence(p, first_sets).val
InsertSet(A, p) ==
    (FirstOfProd(p) \ {EPSILON})
    \cup (IF EPSILON \in FirstOfProd(p) THEN follow_sets[A] ELSE {})
\* the productions of A, by position, that qualify for cell (A, t)
Qualifying(A, t) ==
    {k \in 1..Len(ProdsOf(grammar, A)) : t \in InsertSet(A, ProdsOf(grammar, A)[k])}
\* the cells for which two distinct productions qualify
ConflictCells ==
    {c \in non_terminals \X (terminals \cup {END_MARKER}) :
        Cardinality(Qualifying(c[1], c[2])) >= 2}
\* a production that reaches one cell twice, by FIRST and by FOLLOW
SelfCollides(A, p) ==
    /\ EPSILON \in FirstOfProd(p)
    /\ (FirstOfProd(p) \ {EPSILON}) \cap follow_sets[A] # {}
\* production k of rule a meets a cell that an earlier production of the
\* rule, or its own FIRST set, has filled
Collides(a, k) ==
    \/ \E j \in 1..(k - 1) :
          InsertSet(grammar[a].head, grammar[a].prods[j])
          \cap InsertSet(grammar[a].head, grammar[a].prods[k]) # {}
    \/ SelfCollides(grammar[a].head, grammar[a].prods[k])
Colliding ==
    UNION {{<<a, k>> : k \in {i \in 1..Len(grammar[a].prods) : Collides(a, i)}} :
              a \in 1..Len(grammar)}
Before(x, y) == x[1] < y[1] \/ (x[1] = y[1] /\ x[2] < y[2])
FirstColliding ==
    CHOOSE x \in Colliding : \A y \in Colliding : y = x \/ Before(x, y)

\* C1: once parse_input_string has started on a table that
\* construct_parsing_table built without a conflict, it ends with a verdict:
\* no run applies productions for ever without consuming input.
C1_ParseTerminates ==
    (stage = "parse") ~> (stage = "exit" /\ outcome # "")

C1_Witness ==
    /\ stage = "exit" /\ outcome = "accept"
    /\ \E i \in 1..Len(applied) : applied[i][2] = <<EPSILON>>
    /\ \E i \in 1..Len(applied) : applied[i][2] # <<EPSILON>>

\* C2: on the grammar A -> B, B -> A the pipeline ends with the distinct
\* "derivation did not terminate" error, it does not recurse without bound.
C2_CycleEndsWithNonterminationError ==
    (prog = "6a" /\ grammar = CycleGrammar /\ stage \in Ended)
        => outcome = "ParseNonterminationError"

\* the stages in which a solver's loop runs, and the stages that follow the
\* loops: "first_sets" is left for "follow_init", "follow_sets" for "done",
\* "follow_loop" for "table"
SolverLoops == {"first_sets", "follow_sets", "follow_loop"}
SolverExits == {"follow_init", "done", "table"}

\* C3: the "while changed" / "while updated" loops of compute_first_sets,
\* compute_follow_sets and compute_all_follow_sets are left after finitely
\* many passes, whatever the grammar.
C3_SolversTerminate ==
    (stage \in SolverLoops) ~> (stage \in SolverExits)

C3_Witness ==
    /\ prog = "main4" /\ stage = "done"
    /\ grammar = <<Rule("S", << <<"S", "a">>, <<"A">> >>),
                   Rule("A", << <<"S">>, <<"b">> >>)>>
    /\ first_sets["S"] = {"b"} /\ follow_sets["A"] = {"a", "$"}

\* C4: compute_first returns for every nonterminal of every grammar, and
\* its calls never nest deeper than one call per nonterminal and one for a
\* terminal.
C4_FirstAlwaysReturns ==
    prog = "6a" => /\ outcome # "RecursionError"
                   /\ depth <= Cardinality(non_terminals) + 1

\* C5: in a table that was built, cell (A, t) holds production p exactly
\* when p is the one production of A with t in FIRST(p) minus epsilon, or
\* with epsilon in FIRST(p) and t in FOLLOW(A); no cell has two productions
\* qualifying for it, since construction would have failed.
C5_TableCells ==
    (prog = "6a" /\ stage \in AfterTable6 \ {"halt"}) =>
        \A A \in non_terminals : \A t \in terminals \cup {END_MARKER} :
            /\ Cardinality(Qualifying(A, t)) <= 1
            /\ Qualifying(A, t) = {} => parsing_table[A][t] = None
            /\ \A k \in Qualifying(A, t) :
                   parsing_table[A][t] = ProdsOf(grammar, A)[k]

C5_Witness ==
    /\ prog = "6a" /\ stage = "input" /\ grammar = ExprGrammar
    /\ parsing_table["E'"]["$"] = <<"#">>
    /\ parsing_table["E'"]["+"] = <<"+", "T", "E'">>
    /\ parsing_table["E'"]["id"] = None

\* C6 as stated: a failed construction has reported every cell at which two
\* productions collide.
C6_ReportsEveryConflict ==
    (prog = "6a" /\ stage = "halt") =>
        ConflictCells \subseteq
            {<<report[i].nt, report[i].terminal>> : i \in 1..Len(report)}

\* C6 amended: construction fails exactly when some production collides,
\* and then it has reported one conflict only, that of the first colliding
\* production in grammar order, and has examined no later rule.
C6_ReportsFirstConflictOnly ==
    (prog = "6a" /\ stage \in AfterTable6) =>
        IF Colliding = {}
        THEN stage # "halt" /\ report = <<>>
        ELSE /\ stage = "halt" /\ outcome = "not_ll1"
             /\ Len(report) = 1
             /\ report[1].nt = grammar[FirstColliding[1]].head
             /\ report[1].new =
                    grammar[FirstColliding[1]].prods[FirstColliding[2]]
             /\ report[1].terminal \in InsertSet(report[1].nt, report[1].new)
             /\ report[1].existing # None
             /\ \A a \in (FirstColliding[1] + 1)..Len(grammar) :
                    \A t \in terminals \cup {END_MARKER} :
                        parsing_table[grammar[a].head][t] = None

C6_Witness ==
    /\ prog = "6a" /\ stage = "halt" /\ grammar = MultiConflictGrammar
    /\ report = <<Conflict("A", "a", <<"a">>, <<"a", "b">>)>>
    /\ Cardinality(ConflictCells) = 2

\* C7: a conflict is reported only for a cell that two distinct productions
\* of the nonterminal qualify for; one production reaching a cell by FIRST
\* and again by FOLLOW is not reported.
C7_OnlyDistinctProductionsConflict ==
    (prog = "6a" /\ stage = "halt") =>
        \A i \in 1..Len(report) :
            Cardinality(Qualifying(report[i].nt, report[i].terminal)) >= 2

\* C8: after construct_parsing_table has reported a conflict the run halts
\* and parse_input_string is never executed; for A -> a | a b the conflict
\* is at cell (A, a) and names both productions.
C8_NoParseAfterConflict ==
    /\ report # <<>> =>
          /\ stage = "halt"
          /\ tokens = <<>> /\ stack = <<>> /\ action = NoAction
          /\ applied = <<>>
    /\ (prog = "6a" /\ grammar = ConflictGrammar /\ stage \in AfterTable6) =>
          report = <<Conflict("A", "a", <<"a">>, <<"a", "b">>)>>

C8_Witness ==
    /\ prog = "6a" /\ grammar = ConflictGrammar /\ stage = "halt"
    /\ report = <<Conflict("A", "a", <<"a">>, <<"a", "b">>)>>
    /\ stack = <<>>

ExprFirst == {"(", "id"}
\* the leftmost derivation of id + id * id
ExprDerivation ==
    << <<"E", <<"T", "E'">>>>, <<"T", <<"F", "T'">>>>, <<"F", <<"id">>>>,
       <<"T'", <<"#">>>>, <<"E'", <<"+", "T", "E'">>>>,
       <<"T", <<"F", "T'">>>>, <<"F", <<"id">>>>,
       <<"T'", <<"*", "F", "T'">>>>, <<"F", <<"id">>>>, <<"T'", <<"#">>>>,
       <<"E'", <<"#">>>> >>
ExprSetsAsExpected ==
    /\ first_sets["E"] = ExprFirst /\ first_sets["T"] = ExprFirst
    /\ first_sets["F"] = ExprFirst
    /\ follow_sets["E"] = {")", "$"} /\ follow_sets["E'"] = {")", "$"}
    /\ follow_sets["T"] = {"+", ")", "$"}
    /\ follow_sets["F"] = {"+", "*", ")", "$"}

\* C9: on the expression grammar both programs compute the expected FIRST
\* and FOLLOW sets, the table is built without a conflict, and parsing
\* id + id * id ends in acceptance after exactly the productions of the
\* leftmost derivation.
C9_ExpressionGrammar ==
    /\ (prog = "6a" /\ grammar = ExprGrammar) =>
          /\ stage # "crashed" /\ stage # "halt" /\ report = <<>>
          /\ stage \in AfterFollow6 => ExprSetsAsExpected
          /\ (stage = "exit" /\ tokens = ExprAccepted \o <<END_MARKER>>) =>
                outcome = "accept" /\ applied = ExprDerivation
    /\ (prog = "main4" /\ grammar = parse_grammar_file(ExprGrammar)
        /\ stage = "done") => ExprSetsAsExpected

C9_Witness ==
    /\ prog = "6a" /\ grammar = ExprGrammar /\ stage = "exit"
    /\ tokens = ExprAccepted \o <<END_MARKER>>
    /\ outcome = "accept" /\ Len(applied) = 11

\* C10: on the expression grammar the input id + is rejected with "no
\* table entry", in the configuration with T on top of the stack and the
\* end marker as current token, after both tokens have been matched.
C10_MissingOperandRejected ==
    (prog = "6a" /\ grammar = ExprGrammar
     /\ tokens = ExprRejected \o <<END_MARKER>>) =>
        /\ stage \in {"parse", "exit"}
        /\ stage = "exit" =>
              /\ outcome = "no_table_entry"
              /\ action = Act("error", "T", END_MARKER, None)
              /\ stack[Len(stack)] = "T"
              /\ input_pointer = 2 /\ tokens[input_pointer + 1] = END_MARKER
              /\ applied = SubSeq(ExprDerivation, 1, 5)
        /\ (stage = "parse" /\ action.kind = "error") => FALSE

C10_Witness ==
    /\ prog = "6a" /\ grammar = ExprGrammar /\ stage = "exit"
    /\ tokens = ExprRejected \o <<END_MARKER>>
    /\ outcome = "no_table_entry" /\ action.top = "T"

\* the stages at which the FIRST sets, the FOLLOW sets and the table are
\* complete
FirstComplete ==
    {"follow", "follow_loop", "table", "input", "parse", "follow_init",
     "follow_sets", "cal_follow"}
FollowComplete == {"table", "input", "parse"}
TableComplete == {"input", "parse"}

\* C11: no later stage changes the result of an earlier one: once the FIRST
\* sets are complete no step changes the FIRST mapping, once the FOLLOW sets
\* are complete no step changes them, and no step of a parse changes the
\* parsing table or the grammar.
C11_LaterStagesLeaveEarlierResults ==
    [][/\ stage \in FirstComplete => first_sets' = first_sets
       /\ stage \in FollowComplete => follow_sets' = follow_sets
       /\ stage \in TableComplete =>
             parsing_table' = parsing_table /\ grammar' = grammar]_vars

\* every set stored in old is stored in new with at least the same elements
Grows(old, new) ==
    \A x \in DOMAIN old : x \in DOMAIN new /\ old[x] \subseteq new[x]

\* C12: a pass of compute_first_sets, of compute_follow_sets or of
\* compute_all_follow_sets only grows the sets: after the pass the FIRST
\* (FOLLOW) set of every nonterminal is a superset of its value before.
C12_SolverSetsOnlyGrow ==
    [][/\ stage = "first_sets" => Grows(first_sets, first_sets')
       /\ stage \in {"follow_sets", "follow_loop"} =>
             Grows(follow_sets, follow_sets')]_vars

\* both FOLLOW solvers are between two passes, a pass having added to the
\* set of a nonterminal other than the start symbol (which started empty)
C12_Witness ==
    /\ stage \in {"follow_sets", "follow_loop"}
    /\ \E nt \in DOMAIN follow_sets :
          nt # StartSymbol(grammar) /\ Cardinality(follow_sets[nt]) >= 2

\* the epsilon symbol of the running program, and the states in which its
\* FIRST solver has returned
Epsilon == IF prog \in {"6a", "seq"} THEN EPSILON ELSE EPSILON4
FirstSolved ==
    CASE prog = "6a" -> stage \in AfterFirst6
      [] prog = "main4" -> stage \in {"follow_init", "follow_sets", "done"}
      [] OTHER -> stage \in {"cal_follow", "done"}

\* a symbol can vanish: it is epsilon or a nonterminal whose FIRST set
\* contains epsilon
CanVanish(x) ==
    \/ x = Epsilon
    \/ x \in Heads(grammar) /\ x \in DOMAIN first_sets
                            /\ Epsilon \in first_sets[x]
HasVanishingProduction(A) ==
    \E k \in 1..Len(ProdsOf(grammar, A)) :
        \A j \in 1..Len(ProdsOf(grammar, A)[k]) :
            CanVanish(ProdsOf(grammar, A)[k][j])

\* C13: in the FIRST sets a solver has returned, epsilon is in FIRST(A)
\* exactly when A has a production every symbol of which can vanish.
C13_EpsilonIffVanishingProduction ==
    FirstSolved =>
        \A A \in Heads(grammar) :
            Epsilon \in first_sets[A] <=> HasVanishingProduction(A)

\* the states of a FOLLOW solver after its initialisation, its result
\* included; cal_follow is first called on the start symbol, whose entry
\* main stores when the call returns
FollowInitialised ==
    CASE prog = "6a" -> stage \in {"follow_loop"} \cup AfterFollow6
      [] prog = "main4" -> stage \in {"follow_sets", "done"}
      [] OTHER -> StartSymbol(grammar) \in DOMAIN follow_memo

\* C14: once a FOLLOW solver has initialised, and in what it returns,
\* FOLLOW(start symbol) contains the end marker '$' (compute_follow_sets,
\* compute_all_follow_sets and cal_follow, whose memo is included).
C14_StartFollowHasEndMarker ==
    FollowInitialised =>
        /\ StartSymbol(grammar) \in DOMAIN follow_sets
        /\ END_MARKER \in follow_sets[StartSymbol(grammar)]
        /\ prog = "fnf" => END_MARKER \in follow_memo[StartSymbol(grammar)]

\* a solver has returned a FOLLOW(start symbol) holding the end marker and
\* something the passes added
C14_Witness ==
    /\ stage = "done"
    /\ END_MARKER \in follow_sets[StartSymbol(grammar)]
    /\ Cardinality(follow_sets[StartSymbol(grammar)]) >= 2

\* the parser is about to run an iteration of its loop, and the stack top
\* and current token that iteration reads
Iterating ==
    /\ prog = "6a" /\ stage = "parse"
    /\ stack # <<>> /\ input_pointer < Len(tokens)
TopOfStack == stack[Len(stack)]
CurrentInput == tokens[input_pointer + 1]

\* C15: a step of parse_input_string reports success exactly when it is an
\* iteration that reads the end marker on top of the stack and the end
\* marker as current token: such an iteration always accepts, and no other
\* step does.
C15_AcceptExactlyAtEndMarkers ==
    [][(prog = "6a" /\ stage = "parse") =>
          (outcome' = "accept" <=>
              (Iterating /\ TopOfStack = END_MARKER
                         /\ CurrentInput = END_MARKER))]_vars

\* a parse of a non-empty input has accepted, reading two end markers
C15_Witness ==
    /\ stage = "exit" /\ outcome = "accept" /\ Len(tokens) >= 2
    /\ action.top = END_MARKER /\ action.input = END_MARKER

\* the iteration about to run finds a nonterminal on top of the stack, and
\* the table entry it looks up
NonTerminalOnTop ==
    /\ Iterating
    /\ TopOfStack \notin terminals /\ TopOfStack # END_MARKER
    /\ TopOfStack \in non_terminals
Entry == TableGet(parsing_table, TopOfStack, CurrentInput)
\* the symbols an entry pushes: none for the epsilon production
Pushed(production) == IF production = <<EPSILON>> THEN <<>> ELSE production
\* new_stack is the stack with its top replaced by seq, the first symbol of
\* seq on top
TopReplacedBy(new_stack, seq) ==
    /\ Len(new_stack) = Len(stack) - 1 + Len(seq)
    /\ \A j \in 1..(Len(stack) - 1) : new_stack[j] = stack[j]
    /\ \A j \in 1..Len(seq) : new_stack[Len(new_stack) - j + 1] = seq[j]

\* C16: an iteration with a nonterminal X on top and current token a
\* leaves the cursor where it is; if table[X][a] is absent it rejects with
\* "no table entry", the stack as it was, and the parse takes no further
\* step; otherwise X is replaced by the symbols of the production, the first
\* one on top and none for the epsilon production, the stack below X
\* unchanged.
C16_NonTerminalStep ==
    [][/\ NonTerminalOnTop =>
             /\ input_pointer' = input_pointer
             /\ Entry = None =>
                   /\ outcome' = "no_table_entry" /\ stage' = "exit"
                   /\ action'.kind = "error" /\ stack' = stack
             /\ Entry # None =>
                   /\ TopReplacedBy(stack', Pushed(Entry))
                   /\ outcome' # "no_table_entry"
                   /\ action' = Act("apply", TopOfStack, CurrentInput, Entry)
       /\ outcome # "no_table_entry"]_vars

\* a parse that applied an epsilon production and a longer one has been
\* rejected for a missing table entry
C16_Witness ==
    /\ stage = "exit" /\ outcome = "no_table_entry"
    /\ \E i \in 1..Len(applied) : applied[i][2] = <<EPSILON>>
    /\ \E i \in 1..Len(applied) : Len(applied[i][2]) >= 2

\* the iteration about to run finds a terminal or the end marker on top
TerminalOnTop ==
    Iterating /\ (TopOfStack \in terminals \/ TopOfStack = END_MARKER)

\* C17: an iteration with a terminal or the end marker X on top and current
\* token a: if X = a exactly X is popped and the cursor advances by exactly
\* one; if X # a the parse rejects with a mismatch error, stack and cursor
\* as they were, and neither changes afterwards.
C17_TerminalStep ==
    [][/\ TerminalOnTop =>
             /\ TopOfStack = CurrentInput =>
                   /\ TopReplacedBy(stack', <<>>)
                   /\ input_pointer' = input_pointer + 1
                   /\ outcome' # "mismatch"
                   /\ action' = Act("match", TopOfStack, CurrentInput, None)
             /\ TopOfStack # CurrentInput =>
                   /\ outcome' = "mismatch" /\ stage' = "exit"
                   /\ action'.kind = "error"
                   /\ stack' = stack /\ input_pointer' = input_pointer
       /\ outcome # "mismatch"]_vars

\* a parse that matched a token has been rejected for a mismatch
C17_Witness ==
    /\ stage = "exit" /\ outcome = "mismatch"
    /\ input_pointer >= 1 /\ stack # <<>>
    /\ stack[Len(stack)] # tokens[input_pointer + 1]

\* FIRST of a symbol and of a sequence of symbols by the FIRST sets the run
\* has computed: epsilon is in FIRST of a sequence exactly when every symbol
\* of it can vanish
FirstOfSymbol(x) ==
    CASE x = Epsilon -> {Epsilon}
      [] x # Epsilon /\ x \in DOMAIN first_sets -> first_sets[x]
      [] OTHER -> {x}
RECURSIVE FirstOfBeta(_)
FirstOfBeta(beta) ==
    IF beta = <<>> THEN {Epsilon}
    ELSE IF Epsilon \in FirstOfSymbol(Head(beta))
         THEN (FirstOfSymbol(Head(beta)) \ {Epsilon})
                  \cup FirstOfBeta(Tail(beta))
         ELSE FirstOfSymbol(Head(beta))

\* what the FOLLOW rules force into FOLLOW(B) from the occurrence of B at
\* position i of the production prod of A, by the sets F
ForcedAt(F, A, prod, i) ==
    (FirstOfBeta(SubSeq(prod, i + 1, Len(prod))) \ {Epsilon})
        \cup (IF Epsilon \in FirstOfBeta(SubSeq(prod, i + 1, Len(prod)))
              THEN F[A] ELSE {})
ForcedIn(F, B, A, prod) ==
    UNION {IF prod[i] = B THEN ForcedAt(F, A, prod, i) ELSE {} :
              i \in 1..Len(prod)}
Forced(F, B) ==
    UNION {UNION {ForcedIn(F, B, grammar[a].head, grammar[a].prods[k]) :
                     k \in 1..Len(grammar[a].prods)} :
              a \in 1..Len(grammar)}

\* the least sets closed under the rules, by iteration from the sets that
\* hold only the end marker for the start symbol
RECURSIVE LeastFollowFrom(_)
LeastFollowFrom(F) ==
    IF \A B \in DOMAIN F : Forced(F, B) \subseteq F[B] THEN F
    ELSE LeastFollowFrom([B \in DOMAIN F |-> F[B] \cup Forced(F, B)])
LeastFollow ==
    LeastFollowFrom([B \in DOMAIN follow_sets |->
                        IF B = StartSymbol(grammar) THEN {END_MARKER}
                        ELSE {}])

\* a FOLLOW solver of main.py or of 6a.py has just returned
FollowReturned ==
    \/ prog = "main4" /\ stage = "done"
    \/ prog = "6a" /\ stage = "table"

\* C18: the FOLLOW sets compute_follow_sets and compute_all_follow_sets
\* return are the least sets that hold '$' in FOLLOW(start) and are closed
\* under the two FOLLOW rules: every forced element is present and no other.
C18_FollowIsLeastSolution ==
    FollowReturned => follow_sets = LeastFollow

\* every symbol of the sequence can vanish, by the FIRST sets of 6a.py
AllVanish == \A j \in 1..Len(sequence_in) : CanVanish(sequence_in[j])
\* a returned set in the symbols of 6a.py (main.py writes epsilon as "ε")
InSymbolsOf6a(set) ==
    {IF x = EPSILON4 THEN EPSILON ELSE x : x \in set}

\* C19: for every sequence, sequences with an epsilon symbol next to other
\* symbols included, first_of_sequence and compute_first_of_sequence return
\* a set that holds epsilon exactly when every symbol of the sequence can
\* vanish, {epsilon} for the empty sequence, and the same set as each other.
C19_SequenceFirst ==
    /\ \A f \in DOMAIN sequence_first :
          /\ EPSILON \in InSymbolsOf6a(sequence_first[f]) <=> AllVanish
          /\ sequence_in = <<>> =>
                InSymbolsOf6a(sequence_first[f]) = {EPSILON}
    /\ DOMAIN sequence_first = {"main.py", "6a.py"} =>
          InSymbolsOf6a(sequence_first["main.py"]) = sequence_first["6a.py"]

\* C20: for every grammar, left-recursive and mutually recursive ones
\* included, every set cal_first has stored in its memo, and every set main
\* has received from it, is the set compute_first_sets returns for that
\* nonterminal on the same grammar: none is under-populated.
C20_CalFirstIsFixedPoint ==
    prog = "fnf" =>
        /\ \A X \in DOMAIN first_memo :
              first_memo[X] = compute_first_sets(grammar)[X]
        /\ \A X \in DOMAIN first_sets :
              first_sets[X] = compute_first_sets(grammar)[X]

\* C21: after main has called cal_follow for all nonterminals with the
\* shared memo, the set of each nonterminal is the set compute_follow_sets
\* returns for the same grammar, FIRST sets and start symbol; no element is
\* missing because a partial set was read from the memo.
C21_CalFollowIsFixedPoint ==
    (prog = "fnf" /\ stage = "done") =>
        follow_sets = compute_follow_sets(grammar, first_sets)

\* C22: at the head of every iteration of a running parse the cursor is
\* inside the token list, 0 <= input_pointer < len(tokens), and the stack
\* is not empty and has the end marker at its bottom; the parse never ends
\* by the "return False" after the loop, nor by an IndexError.
C22_ParserStaysInBounds ==
    prog = "6a" =>
        /\ stage = "parse" =>
              /\ input_pointer \in 0..(Len(tokens) - 1)
              /\ stack # <<>> /\ stack[1] = END_MARKER
        /\ outcome \notin {"loop_exit", "IndexError"}

\* a running parse that has matched a token and holds symbols above the
\* end marker
C22_Witness ==
    /\ prog = "6a" /\ stage = "parse"
    /\ input_pointer >= 1 /\ Len(stack) >= 2
    /\ action.kind = "match"

\* C23: for every grammar whose productions are made of its terminals, its
\* nonterminals and epsilon, productions with epsilon next to other symbols
\* included, every symbol on the parser stack is a terminal, a nonterminal
\* or the end marker: epsilon is never pushed and no parse ends in the
\* "Unknown symbol on stack" branch.
C23_StackSymbolsKnown ==
    prog = "6a" =>
        /\ \A i \in 1..Len(stack) :
              stack[i] \in terminals \cup non_terminals \cup {END_MARKER}
        /\ outcome # "unknown_symbol"

\* C24: whenever parse_input_string accepts, every token has been consumed:
\* the end marker matched by the accepting iteration is the last element of
\* the token list (the cursor, advanced by that match, is len(tokens)), for
\* every input string, those that contain the token '$' included.
C24_AcceptConsumesAllTokens ==
    (prog = "6a" /\ outcome = "accept") => input_pointer - 1 = Len(tokens) - 1

====
